---- MODULE Spec2Model ----
(***************************************************************************)
(* State-machine model of backend/app/Ollama_Transcript.py: the chunk      *)
(* store kept by TranscriptProcessor, the section accumulator kept by      *)
(* MeetingSummarizer, the seven agent tools, and the agent run that        *)
(* dispatches them.                                                        *)
(***************************************************************************)
EXTENDS Integers, Sequences, FiniteSets, TLC

\* ------------------------------------------------------------------ bounds

\* longest transcript, in characters
MaxLen == 3
\* largest chunk_size, and largest overlap
MaxChunk == 3
\* chunk_size is -MaxBelow at least and the overlap -MaxBelow - 1 at least
MaxBelow == 1
\* most blocks the accumulator is given in one behaviour
MaxBlocks == 3
\* longest transcript and largest chunk_size where the store is also drained,
\* re-ingested and made to fail
StoreMaxLen == 2
StoreMaxChunk == 2
\* longest transcript, and most blocks, of the runs of the whole program
LoopMaxLen == 1
LoopMaxBlocks == 2
\* most oracle turns of one run, most tool calls the oracle puts in one turn, and
\* most blocks, where the turns of a run are counted
MaxTurns == 16
MaxBatch == 2
RunMaxBlocks == 1
\* most ids in the processed_chunks of a ctx that a caller hands to
\* delete_processed_chunks
MaxProcessed == 2

\* ------------------------------------------------------- strings and lists

\* the characters of a transcript: a letter and a whitespace character
Chars == {"a", " "}

\* every string of at most n characters
Strings(n) == UNION {[1..k -> Chars] : k \in 0..n}

Min(a, b) == IF a < b THEN a ELSE b

Max(a, b) == IF a < b THEN b ELSE a

\* the position a slice bound n stands for in a string of len characters: a
\* negative bound counts from the end, and a bound outside the string is
\* moved to its nearer end
PyIndex(n, len) == IF n < 0 THEN Max(len + n, 0) ELSE Min(n, len)

\* s[i:j] cut one character short
PySliceShort(s, i, j) == SubSeq(s, PyIndex(i, Len(s)) + 1, PyIndex(j, Len(s)) - 1)

\* Python s[i:j]
PySlice(s, i, j) == SubSeq(s, PyIndex(i, Len(s)) + 1, PyIndex(j, Len(s)))

\* Python range(i, stop, step) for step > 0, as a list
RECURSIVE PyRange(_, _, _)
PyRange(i, stop, step) ==
    IF i >= stop THEN <<>> ELSE <<i>> \o PyRange(i + step, stop, step)

\* the characters str.strip() removes, among those the model uses
Whitespace == {" ", "\n"}

\* Python str.lstrip() / str.rstrip() / str.strip()
RECURSIVE LStrip(_)
LStrip(s) ==
    IF s # <<>> /\ Head(s) \in Whitespace THEN LStrip(Tail(s)) ELSE s

RECURSIVE RStrip(_)
RStrip(s) ==
    IF s # <<>> /\ s[Len(s)] \in Whitespace
    THEN RStrip(SubSeq(s, 1, Len(s) - 1)) ELSE s

Strip(s) == RStrip(LStrip(s))

\* ------------------------------------------------------------------- state

VARIABLES
    collection,   \* processor.collection: "open" (a handle) or "none"
    store,        \* the persistent ChromaDB collection: chunk index i (id_i) -> record
    Agenda,       \* summarizer.Agenda.blocks
    Decisions,    \* summarizer.Decisions.blocks
    ActionItems,  \* summarizer.ActionItems.blocks
    uuids,        \* number of uuid4 tokens drawn so far
    file,         \* final_summary_result.json: absent, empty, or written with a content
    pc,           \* the program: "idle", "ingested", and the agent run: "awaiting", "done", "failed"
    last,         \* history: the last call, its arguments and its result
    returned,     \* history: the chunk ids whose text query_transcript returned since the last ingestion, in order
    sawEmpty,     \* history: the current run has been given the CHROMADB_EMPTY observation
    ingested,     \* history: the store as the ingestion left it, where it is recorded
    retries,      \* the agent run: final results of the run that failed validation
    turns,        \* history: the oracle's turns in the current run, where they are counted
    dispatched,   \* history: the tool calls dispatched in the current turn, where they are counted
    snapshot      \* a caller's hold on a SummaryResponse that generate_summary returned, or NoSnapshot

vars == <<collection, store, Agenda, Decisions, ActionItems, uuids, file, pc,
          last, returned, sawEmpty, ingested, retries, turns, dispatched, snapshot>>

accVars == <<Agenda, Decisions, ActionItems, uuids>>

\* --------------------------------------------------------- the chunk store

EmptyStore == [i \in {} |-> 0]

Range(seq) == {seq[k] : k \in 1..Len(seq)}

\* the lists of at most n elements of S
SeqsUpTo(S, n) == UNION {[1..k -> S] : k \in 0..n}

\* collection.get()['ids']
Ids(st) == DOMAIN st

\* collection.delete(ids=...): ids that are not there are skipped
Delete(st, ids) == [i \in (DOMAIN st) \ ids |-> st[i]]

\* one record as collection.add(documents=[chunk], metadatas=[...], ids=[id_i]) writes it
ChunkRecord(i, chunk) == [document |-> chunk, source |-> i, processed |-> FALSE]

\* the windows advancing by the overlap
ChunksStepOverlap(transcript, chunk_size, overlap) ==
    LET starts == IF overlap > 0 THEN PyRange(0, Len(transcript), overlap) ELSE <<>>
    IN  [k \in 1..Len(starts) |-> PySlice(transcript, starts[k], starts[k] + chunk_size)]

\* the windows advancing by chunk_size, the overlap forgotten
ChunksNoOverlap(transcript, chunk_size, overlap) ==
    LET starts == IF chunk_size > 0 THEN PyRange(0, Len(transcript), chunk_size) ELSE <<>>
    IN  [k \in 1..Len(starts) |-> PySlice(transcript, starts[k], starts[k] + chunk_size)]

\* chunks = [transcript[i:i+chunk_size] for i in range(0, len(transcript), chunk_size-overlap)]
\* for chunk_size - overlap # 0; a negative step gives an empty range
Chunks(transcript, chunk_size, overlap) ==
    LET step   == chunk_size - overlap
        starts == IF step > 0 THEN PyRange(0, Len(transcript), step) ELSE <<>>
    IN  [k \in 1..Len(starts) |-> PySlice(transcript, starts[k], starts[k] + chunk_size)]

\* The add loop over enumerate(chunks), from its i-th chunk (0-based) on.
\* failAt is the index whose add the backend rejects (Len(chunks) or more: none);
\* an id that is already there is either rejected too (dupRaises) or skipped, the
\* stored record staying as it was, as the installed chromadb decides.
\* The result is the store and whether the loop ran to its end.
RECURSIVE AddAll(_, _, _, _, _)
AddAll(st, chunks, i, failAt, dupRaises) ==
    IF i >= Len(chunks) THEN [store |-> st, ok |-> TRUE]
    ELSE IF i = failAt THEN [store |-> st, ok |-> FALSE]
    ELSE IF i \in DOMAIN st
         THEN IF dupRaises THEN [store |-> st, ok |-> FALSE]
              ELSE AddAll(st, chunks, i + 1, failAt, dupRaises)
    ELSE AddAll([j \in (DOMAIN st) \cup {i} |->
                    IF j = i THEN ChunkRecord(i, chunks[i + 1]) ELSE st[j]],
                chunks, i + 1, failAt, dupRaises)

\* The store after the "clear any existing collection" block: skipped without a
\* handle, and an error of get or delete is logged and swallowed.
Cleared(handle, st, clearFails) ==
    IF handle = "open" /\ ~clearFails THEN Delete(st, Ids(st)) ELSE st

\* the handle after initialize_collection(): fails says that Client(settings),
\* or get_collection and then create_collection, raises; the handle was dropped
\* before that
HandleAfterInit(fails) == IF fails THEN "none" ELSE "open"

\* TranscriptProcessor.process_transcript(transcript_path, chunk_size, overlap)
\* from the handle and the store st, as the steps of its body follow each other:
\*   clearFails: the backend rejects the clearing get/delete
\*   readFails:  transcript_path names a path that cannot be read
\*   initFails:  there is no handle and initialize_collection() raises
\*   failAt, dupRaises: see AddAll
\* transcript is the text that is chunked: the file's, or the argument itself.
Processed(handle, st, transcript, chunk_size, overlap, clearFails, readFails, initFails, failAt, dupRaises) ==
    LET s1     == Cleared(handle, st, clearFails)
        chunks == Chunks(transcript, chunk_size, overlap)
        added  == AddAll(s1, chunks, 0, failAt, dupRaises)
        raised == [outcome |-> "raised", chunks |-> <<>>, ret |-> -1,
                   cleared |-> s1 = EmptyStore, store |-> s1]
    IN  IF readFails
        THEN \* open() or f.read() raises: logged and re-raised
             raised @@ [collection |-> handle]
        ELSE IF chunk_size = overlap
        THEN \* range() arg 3 must not be zero: ValueError, logged and re-raised
             raised @@ [collection |-> handle]
        ELSE IF handle = "none" /\ initFails
        THEN raised @@ [collection |-> HandleAfterInit(TRUE)]
        ELSE [outcome |-> IF added.ok THEN "returned" ELSE "raised",
              chunks |-> chunks,
              ret |-> IF added.ok THEN Len(chunks) ELSE -1,
              cleared |-> s1 = EmptyStore,
              store |-> added.store,
              collection |-> IF handle = "none" THEN HandleAfterInit(FALSE) ELSE handle]

\* inputs of process_transcript that change nothing are fixed to one value
ProcessInputs(handle, st, transcript, chunk_size, overlap, clearFails, readFails, initFails, failAt, dupRaises) ==
    LET s1     == Cleared(handle, st, clearFails)
        chunks == Chunks(transcript, chunk_size, overlap)
    IN  /\ clearFails => handle = "open" /\ st # EmptyStore
        /\ readFails => transcript = <<>>
        /\ initFails => handle = "none" /\ ~readFails /\ chunk_size # overlap
        /\ (readFails \/ chunk_size = overlap \/ initFails) => failAt = 0 /\ ~dupRaises
        /\ dupRaises => \E i \in DOMAIN s1 : i < Len(chunks) /\ i < failAt

ProcessCall(p, transcript, chunk_size, overlap) ==
    [op |-> "process_transcript", transcript |-> transcript,
     chunk_size |-> chunk_size, overlap |-> overlap,
     cleared |-> p.cleared, outcome |-> p.outcome, chunks |-> p.chunks, ret |-> p.ret,
     changed |-> p.store # store]

\* a call of TranscriptProcessor.process_transcript; what it raises goes to its caller
process_transcript(transcript, chunk_size, overlap, clearFails, readFails, initFails, failAt, dupRaises) ==
    /\ pc # "awaiting"
    /\ ProcessInputs(collection, store, transcript, chunk_size, overlap,
                     clearFails, readFails, initFails, failAt, dupRaises)
    /\ \E p \in {Processed(collection, store, transcript, chunk_size, overlap,
                            clearFails, readFails, initFails, failAt, dupRaises)} :
        /\ returned' = <<>>
        /\ store' = p.store
        /\ collection' = p.collection
        /\ last' = ProcessCall(p, transcript, chunk_size, overlap)
        /\ UNCHANGED <<accVars, file, pc, sawEmpty, retries>>

\* a call of TranscriptProcessor.initialize_collection(): the handle is opened
\* again on the persistent collection, or the call raises and leaves no handle
initialize_collection(fails) ==
    /\ pc # "awaiting"
    /\ collection' = HandleAfterInit(fails)
    /\ last' = [op |-> "initialize_collection",
                outcome |-> IF fails THEN "raised" ELSE "returned"]
    /\ UNCHANGED <<store, accVars, file, pc, returned, sawEmpty, retries>>

\* TranscriptProcessor.cleanup()
cleanup ==
    /\ pc # "awaiting"
    /\ collection = "open"
    /\ collection' = "none"
    /\ last' = [op |-> "cleanup"]
    /\ UNCHANGED <<store, accVars, file, pc, returned, sawEmpty, retries>>

\* ------------------------------------------------------------------ tools

CHROMADB_EMPTY == "CHROMADB_EMPTY: All chunks have been processed."

Status(msg) == [kind |-> "status", msg |-> msg]
Text(s) == [kind |-> "text", text |-> s]

\* the except clause left out: the exception leaves the handler
Uncaught(msg) == [kind |-> "raised", msg |-> msg]

\* "except Exception as e: return f"...{str(e)}"": the handler returns the message
Caught(msg) == Status(msg)

\* the strip left out
CombinedResultRaw(doc) == <<"\n">> \o doc \o <<"\n">>

\* combined_result for the one document of the query result, stripped
CombinedResult(doc) == Strip(<<"\n">> \o doc \o <<"\n">>)

\* the delete left out
ConsumedNothing(st, id) == st

\* the store after the handler's collection.delete(ids=chunk_ids)
Consumed(st, id) == Delete(st, {id})

NoId == -1

\* the emptiness test off by one
NoIdsLeftOffByOne(ids) == Cardinality(ids) <= 1

\* "if not collection_data['ids']"
NoIdsLeft(ids) == ids = {}

\* the points of query_transcript at which the backend can raise
\* or answer a query with no document ("noresults")
Faults == {"none", "get", "query", "noresults", "delete", "verify"}

\* query_transcript(ctx, query); id is the best match the index picks
query_transcript(id, fault) ==
    LET call == [op |-> "query_transcript", preEmpty |-> store = EmptyStore,
                 handle |-> collection, fault |-> fault, id |-> id]
        early == collection = "none" \/ fault = "get" \/ store = EmptyStore
                 \/ fault = "query" \/ fault = "noresults"
    IN  /\ collection = "none" => fault = "none"
        /\ (collection = "open" /\ store = EmptyStore) => fault \in {"none", "get"}
        /\ IF early THEN id = NoId ELSE id \in Ids(store)
        /\ IF collection = "none" \/ fault = "get"
           THEN /\ last' = call @@ [obs |-> Caught("Error")]
                /\ UNCHANGED <<store, returned, sawEmpty>>
           ELSE IF NoIdsLeft(Ids(store))
           THEN /\ last' = call @@ [obs |-> Status(CHROMADB_EMPTY)]
                /\ sawEmpty' = TRUE
                /\ UNCHANGED <<store, returned>>
           ELSE IF fault = "query"
           THEN /\ last' = call @@ [obs |-> Caught("Error")]
                /\ UNCHANGED <<store, returned, sawEmpty>>
           ELSE IF fault = "noresults"
           THEN /\ last' = call @@ [obs |-> Status("No results found for the query")]
                /\ UNCHANGED <<store, returned, sawEmpty>>
           ELSE IF fault = "delete"
           THEN /\ last' = call @@ [obs |-> Caught("Error deleting chunks")]
                /\ UNCHANGED <<store, returned, sawEmpty>>
           ELSE IF fault = "verify"
           THEN /\ last' = call @@ [obs |-> Caught("Error deleting chunks")]
                /\ store' = Consumed(store, id)
                /\ UNCHANGED <<returned, sawEmpty>>
           ELSE /\ last' = call @@ [obs |-> Text(CombinedResult(store[id].document))]
                /\ store' = Consumed(store, id)
                /\ returned' = Append(returned, id)
                /\ UNCHANGED sawEmpty
        /\ UNCHANGED <<collection, accVars, file, pc, retries>>

\* the tool deleting every chunk, whatever ctx holds
delete_all_chunks(truthy, once, processed, fault) ==
    /\ store' = EmptyStore
    /\ last' = [op |-> "delete_processed_chunks", truthy |-> truthy, once |-> once,
                processed |-> Range(processed), fault |-> fault, processedAfter |-> {},
                obs |-> Status("No chunks to delete")]
    /\ UNCHANGED <<collection, accVars, file, pc, returned, sawEmpty, retries>>

\* delete_processed_chunks(ctx). truthy says that ctx has a processed_chunks
\* and that it is true as a condition: a container that is not empty, or an
\* object that is true whatever it holds, as an iterator is; the RunContext of
\* the agent has no processed_chunks. processed is list(ctx.processed_chunks);
\* the call is recorded with the ids of the list, before and after.
\* once says that ctx.processed_chunks is an iterator or a generator, which
\* list() uses up: it lists no id afterwards, whatever the call does next.
\* fault "delete" says that the backend rejects the delete, fault "clear" that
\* ctx.processed_chunks has no clear(), as a tuple, a frozenset or an iterator
\* has none: it raises after the delete was made.
delete_processed_chunks(truthy, once, processed, fault) ==
    LET call  == [op |-> "delete_processed_chunks", truthy |-> truthy, once |-> once,
                  processed |-> Range(processed), fault |-> fault]
        after == IF once THEN {} ELSE Range(processed)
    IN  /\ ~truthy => processed = <<>>
        /\ (~truthy \/ collection = "none") => fault = "none"
        /\ once => truthy /\ (collection = "open" => fault # "none")
        /\ IF ~truthy
           THEN /\ last' = call @@ [processedAfter |-> Range(processed),
                                    obs |-> Status("No chunks to delete")]
                /\ UNCHANGED store
           ELSE IF collection = "none" \/ fault = "delete"
           THEN /\ last' = call @@ [processedAfter |-> after,
                                    obs |-> Caught("Error deleting chunks")]
                /\ UNCHANGED store
           ELSE IF fault = "clear"
           THEN /\ last' = call @@ [processedAfter |-> after,
                                    obs |-> Caught("Error deleting chunks")]
                /\ store' = Delete(store, Range(processed))
           ELSE /\ last' = call @@ [processedAfter |-> {},
                                    obs |-> [kind |-> "status", msg |-> "Successfully deleted",
                                             n |-> Len(processed)]]
                /\ store' = Delete(store, Range(processed))
        /\ UNCHANGED <<collection, accVars, file, pc, returned, sawEmpty, retries>>

\* -------------------------------------------------------- the accumulator

\* the titles and contents the oracle passes to the add tools
Titles == {<<>>, <<"a">>}
\* "U+00E9" is a character outside ASCII, "U+DC80" a lone surrogate
Contents == {<<"a">>, <<"U+00E9">>, <<"U+DC80">>}
NonAscii == {"U+00E9", "U+DC80"}
Surrogates == {"U+DC80"}

\* one token for every draw
Uuid4Fixed(n) == 1

\* str(uuid.uuid4()): a fresh token, the n-th one drawn
Uuid4(n) == n + 1

\* block_type not passed on: every block of the default type
create_block_item(title, content, block_type, n) ==
    [id |-> Uuid4(n), type |-> "item", content |-> content, color |-> "default"]

\* MeetingSummarizer.create_block(title, content, block_type, color="default");
\* the title is not kept
create_block(title, content, block_type, n) ==
    [id |-> Uuid4(n), type |-> block_type, content |-> content, color |-> "default"]

\* the block put first
PrependBlock(blocks, block) == <<block>> \o blocks

\* section.blocks.append(block)
AppendBlock(blocks, block) == Append(blocks, block)

Section(title, blocks) == [title |-> title, blocks |-> blocks]

\* MeetingSummarizer.generate_summary(ctx)
generate_summary ==
    [Agenda         |-> Section("Agenda", Agenda),
     Decisions      |-> Section("Decisions", Decisions),
     ActionItems    |-> Section("Action Items", ActionItems),
     ClosingRemarks |-> Section("Closing Remarks", <<>>)]

\* no SummaryResponse is held
NoSnapshot == [held |-> FALSE]

\* The SummaryResponse object that generate_summary returns: its first three
\* fields are the accumulator's own Section objects, passed to the constructor
\* and kept as they are, and ClosingRemarks is a Section made for it. taken is
\* history: what the object read as when it was returned.
Held ==
    [held           |-> TRUE,
     Agenda         |-> "self.Agenda",
     Decisions      |-> "self.Decisions",
     ActionItems    |-> "self.ActionItems",
     ClosingRemarks |-> Section("Closing Remarks", <<>>),
     taken          |-> generate_summary]

\* the Section object a field of a held SummaryResponse refers to, as it reads now
ReadSection(ref) ==
    CASE ref = "self.Agenda"      -> Section("Agenda", Agenda)
      [] ref = "self.Decisions"   -> Section("Decisions", Decisions)
      [] ref = "self.ActionItems" -> Section("Action Items", ActionItems)

\* a held SummaryResponse as it reads now
Read(obj) ==
    [Agenda         |-> ReadSection(obj.Agenda),
     Decisions      |-> ReadSection(obj.Decisions),
     ActionItems    |-> ReadSection(obj.ActionItems),
     ClosingRemarks |-> obj.ClosingRemarks]

\* history: no section of the accumulator holds a block
AllEmpty == Agenda = <<>> /\ Decisions = <<>> /\ ActionItems = <<>>

\* the validation left out
HasContentAlways(summary) == TRUE

\* any([...blocks...]) of save_final_summary_result
HasContent(summary) ==
    \/ summary.Agenda.blocks # <<>>
    \/ summary.Decisions.blocks # <<>>
    \/ summary.ActionItems.blocks # <<>>
    \/ summary.ClosingRemarks.blocks # <<>>

\* summary.model_dump_json(indent=2): the four keys, each {title, blocks: [{id, type, content, color}]}
DumpSection(sec) ==
    [title  |-> sec.title,
     blocks |-> [k \in 1..Len(sec.blocks) |->
                    [id |-> sec.blocks[k].id, type |-> sec.blocks[k].type,
                     content |-> sec.blocks[k].content, color |-> sec.blocks[k].color]]]

\* two sections written under each other's key
ModelDumpJsonSwapped(summary) ==
    [Agenda         |-> DumpSection(summary.Agenda),
     Decisions      |-> DumpSection(summary.ActionItems),
     ActionItems    |-> DumpSection(summary.Decisions),
     ClosingRemarks |-> DumpSection(summary.ClosingRemarks)]

ModelDumpJson(summary) ==
    [Agenda         |-> DumpSection(summary.Agenda),
     Decisions      |-> DumpSection(summary.Decisions),
     ActionItems    |-> DumpSection(summary.ActionItems),
     ClosingRemarks |-> DumpSection(summary.ClosingRemarks)]

\* some block of the summary has one of the characters in its content
HasChar(summary, chars) ==
    \E name \in {"Agenda", "Decisions", "ActionItems", "ClosingRemarks"} :
        \E k \in 1..Len(summary[name].blocks) :
            Range(summary[name].blocks[k].content) \cap chars # {}

\* model_dump_json raises for a string that holds a surrogate
Serializable(summary) == ~HasChar(summary, Surrogates)

AddCall(op, title, block) ==
    [op |-> op, title |-> title, block |-> block,
     obs |-> [kind |-> "status", msg |-> "Successfully added", id |-> block.id]]

\* add_action_item(ctx, title, content) -> MeetingSummarizer.add_action_item
add_action_item(title, content) ==
    LET block == create_block(title, content, "action", uuids)
    IN  /\ ActionItems' = AppendBlock(ActionItems, block)
        /\ uuids' = uuids + 1
        /\ last' = AddCall("add_action_item", title, block)
        /\ UNCHANGED <<collection, store, Agenda, Decisions, file, pc, returned, sawEmpty, retries>>

\* add_agenda_item(ctx, title, content) -> MeetingSummarizer.add_agenda_item
add_agenda_item(title, content) ==
    LET block == create_block(title, content, "agenda", uuids)
    IN  /\ Agenda' = AppendBlock(Agenda, block)
        /\ uuids' = uuids + 1
        /\ last' = AddCall("add_agenda_item", title, block)
        /\ UNCHANGED <<collection, store, Decisions, ActionItems, file, pc, returned, sawEmpty, retries>>

\* add_decision(ctx, title, content) -> MeetingSummarizer.add_decision
add_decision(title, content) ==
    LET block == create_block(title, content, "decision", uuids)
    IN  /\ Decisions' = AppendBlock(Decisions, block)
        /\ uuids' = uuids + 1
        /\ last' = AddCall("add_decision", title, block)
        /\ UNCHANGED <<collection, store, Agenda, ActionItems, file, pc, returned, sawEmpty, retries>>

\* final_summary_result.json: not there, there and empty (as open(..., 'w')
\* leaves it when the write fails at once), holding the first characters of
\* json_data but not all of them (as a write leaves it that fails after it was
\* taken in part), and after f.write(json_data)
Absent == [state |-> "absent"]
Truncated == [state |-> "truncated"]
Partial(json_data) == [state |-> "partial", of |-> json_data]
Written(json_data) == [state |-> "written", content |-> json_data]

\* The points of save_final_summary_result at which the file system raises:
\* IOError in open, in f.write before a character is in the file ("write") or
\* with some of them in the file ("short"), and UnicodeEncodeError, which is no
\* IOError, in f.write when the locale's encoding has no code for a character
\* ("encode").
WriteFaults == {"none", "open", "write", "short", "encode"}

\* save_final_summary_result(ctx)
save_final_summary_result(fault) ==
    LET summary == generate_summary
        call    == [op |-> "save_final_summary_result", fault |-> fault,
                    allEmpty |-> AllEmpty, fileBefore |-> file]
    IN  /\ (~HasContent(summary) \/ ~Serializable(summary)) => fault = "none"
        /\ fault = "encode" => HasChar(summary, NonAscii)
        /\ IF ~HasContent(summary)
           THEN /\ last' = call @@ [obs |-> Status("Error: No content found in summary. Please add some items first.")]
                /\ UNCHANGED file
           ELSE IF ~Serializable(summary)
           THEN \* model_dump_json raises, before the file is opened
                /\ last' = call @@ [obs |-> Caught("Error processing summary")]
                /\ UNCHANGED file
           ELSE IF fault = "open"
           THEN \* open(..., 'w') raises: the file is as it was
                /\ last' = call @@ [obs |-> Caught("Error saving to file")]
                /\ UNCHANGED file
           ELSE IF fault = "write"
           THEN \* f.write raises IOError after open emptied the file
                /\ last' = call @@ [obs |-> Caught("Error saving to file")]
                /\ file' = Truncated
           ELSE IF fault = "short"
           THEN \* the write raises IOError with a part of json_data in the file
                /\ last' = call @@ [obs |-> Caught("Error saving to file")]
                /\ file' = Partial(ModelDumpJson(summary))
           ELSE IF fault = "encode"
           THEN \* f.write raises UnicodeEncodeError after open emptied the file
                /\ last' = call @@ [obs |-> Caught("Error processing summary")]
                /\ file' = Truncated
           ELSE /\ last' = call @@ [obs |-> Status("Successfully saved final summary result to file")]
                /\ file' = Written(ModelDumpJson(summary))
        /\ UNCHANGED <<collection, store, accVars, pc, returned, sawEmpty, retries>>

\* get_final_summary(ctx)
get_final_summary ==
    /\ last' = [op |-> "get_final_summary", allEmpty |-> AllEmpty, fileBefore |-> file,
                obs |-> [kind |-> "summary", summary |-> generate_summary]]
    /\ UNCHANGED <<collection, store, accVars, file, pc, returned, sawEmpty, retries>>

\* ------------------------------------------------------------ the agent run

\* def process_transcript(self, transcript_path, chunk_size: int = 5000, overlap: int = 1000)
DefaultChunkSize == 5000
DefaultOverlap == 1000

\* Agent(..., result_type=SummaryResponse, result_retries=15, ...)
result_retries == 15

\* agent.run_sync(...): a run starts and waits for the oracle's first step
run_sync ==
    /\ pc # "awaiting"
    /\ pc' = "awaiting"
    /\ sawEmpty' = FALSE
    /\ retries' = 0
    /\ last' = [op |-> "run_sync"]
    /\ UNCHANGED <<collection, store, accVars, file, returned>>

\* The oracle answers with a final result of result_type SummaryResponse, which it
\* writes itself. A valid one ends the run. One that fails validation is sent
\* back for a retry; past result_retries of them run_sync raises.
final_result(valid) ==
    /\ pc = "awaiting"
    /\ last' = [op |-> "final_result", valid |-> valid, sawEmpty |-> sawEmpty]
    /\ IF valid
       THEN /\ pc' = "done"
            /\ UNCHANGED retries
       ELSE /\ retries' = retries + 1
            /\ pc' = IF retries + 1 > result_retries THEN "failed" ELSE pc
    /\ UNCHANGED <<store, accVars, file, returned, sawEmpty>>

\* any other exception leaves agent.run_sync, as when the oracle cannot be reached
run_raises ==
    /\ pc = "awaiting"
    /\ pc' = "failed"
    /\ last' = [op |-> "run_raises"]
    /\ UNCHANGED <<store, accVars, file, returned, sawEmpty, retries>>

\* __main__, the first statement of its try block: processor.process_transcript(path)
\* with the default chunk_size and overlap on the handle that the import opened;
\* when it raises, the except clause logs, calls processor.cleanup(), and the
\* program ends without a run.
main_ingest(transcript, clearFails, readFails, failAt) ==
    /\ pc = "idle"
    /\ ProcessInputs(collection, store, transcript, DefaultChunkSize, DefaultOverlap,
                     clearFails, readFails, FALSE, failAt, FALSE)
    /\ \E p \in {Processed(collection, store, transcript, DefaultChunkSize, DefaultOverlap,
                            clearFails, readFails, FALSE, failAt, FALSE)} :
        /\ returned' = <<>>
        /\ store' = p.store
        /\ last' = ProcessCall(p, transcript, DefaultChunkSize, DefaultOverlap)
        /\ IF p.outcome = "raised"
           THEN pc' = "failed" /\ collection' = "none"
           ELSE pc' = "ingested" /\ collection' = p.collection
        /\ UNCHANGED <<accVars, file, sawEmpty, retries>>

\* __main__, the rest of its try block for a step of the run: a run_sync that
\* raised is logged and followed by processor.cleanup(); so is a result that
\* cannot be printed (printFails), the run being done.
MainHandler(printFails) ==
    /\ printFails => pc' = "done"
    /\ collection' = IF pc' = "failed" \/ (pc' = "done" /\ printFails) THEN "none" ELSE collection

\* ------------------------------------------------------------ specifications

\* the chunk sizes that process_transcript is given: an int, zero and negative
\* ones too
Sizes(maxChunk) == (0 - MaxBelow)..maxChunk

\* the overlaps that process_transcript is given: an int, negative ones too,
\* and some below every chunk size
Overlaps(maxChunk) == (0 - MaxBelow - 1)..maxChunk

\* the chunk sizes that give windows of one character or more, and the
\* overlaps drawn with them
WindowSizes(maxChunk) == 1..maxChunk

WindowOverlaps(maxChunk) == (0 - MaxBelow)..maxChunk

\* the transcripts of earlier executions: every text of at most StoreMaxLen
\* characters, and of the longer ones those of letters only
LeftTexts(maxLen) ==
    Strings(Min(maxLen, StoreMaxLen)) \cup {[j \in 1..k |-> "a"] : k \in 0..maxLen}

\* the chunks that an ingestion can store under the id i
ChunksAt(i, maxLen, sizes, overlaps) ==
    {Chunks(t, c, o)[i + 1] :
        <<t, c, o>> \in {x \in LeftTexts(maxLen) \X sizes \X overlaps :
                            x[2] # x[3] /\ Len(Chunks(x[1], x[2], x[3])) > i}}

\* What earlier executions of the program can have left in the persistent
\* collection, which the import opens and does not empty: under some ids a
\* chunk of a transcript, and not of the same transcript under every id, since
\* an ingestion that did not clear the collection adds to what was there.
LeftStores(maxLen, sizes, overlaps) ==
    UNION {{f \in [S -> UNION {{ChunkRecord(i, d) : d \in ChunksAt(i, maxLen, sizes, overlaps)} : i \in S}] :
               \A i \in S : f[i].source = i} :
           S \in SUBSET (0..(maxLen - 1))}

\* a summary file of an earlier execution: one decision, under a token of that execution
OldArtifact ==
    [Agenda         |-> DumpSection(Section("Agenda", <<>>)),
     Decisions      |-> DumpSection(Section("Decisions",
                            <<[id |-> 0, type |-> "decision", content |-> <<"a">>,
                               color |-> "default"]>>)),
     ActionItems    |-> DumpSection(Section("Action Items", <<>>)),
     ClosingRemarks |-> DumpSection(Section("Closing Remarks", <<>>))]

\* final_summary_result.json as an earlier execution can have left it
LeftFiles == {Absent, Truncated, Partial(OldArtifact), Written(OldArtifact)}

\* the state after the import of the module, which builds summarizer, processor
\* (opening the persistent collection) and agent
InitWith(stores, files) ==
    /\ collection = "open"
    /\ store \in stores
    /\ Agenda = <<>>
    /\ Decisions = <<>>
    /\ ActionItems = <<>>
    /\ uuids = 0
    /\ file \in files
    /\ pc = "idle"
    /\ last = [op |-> "init"]
    /\ returned = <<>>
    /\ sawEmpty = FALSE
    /\ ingested = EmptyStore
    /\ retries = 0
    /\ turns = 0
    /\ dispatched = 0
    /\ snapshot = NoSnapshot

Init == InitWith(LeftStores(StoreMaxLen, WindowSizes(StoreMaxChunk), WindowOverlaps(StoreMaxChunk)), LeftFiles)

\* the import where the earlier executions ingested what __main__ ingests
InitMain == InitWith(LeftStores(LoopMaxLen, {DefaultChunkSize}, {DefaultOverlap}), LeftFiles)

\* the import in a directory that has no summary file
InitStore == InitWith(LeftStores(StoreMaxLen, WindowSizes(StoreMaxChunk), WindowOverlaps(StoreMaxChunk)), {Absent})

\* the same, the earlier executions having ingested longer transcripts in
\* larger chunks
InitChunk == InitWith(LeftStores(MaxLen, Sizes(MaxChunk), Overlaps(MaxChunk)), {Absent})

\* the import with a persistent collection that holds no chunk
InitAcc == InitWith({EmptyStore}, LeftFiles)

\* a call whose caller counts no turns, keeps no snapshot and records no ingestion
Direct == UNCHANGED <<turns, dispatched, snapshot, ingested>>

Ingest(maxLen, sizes, overlaps) ==
    \E transcript \in Strings(maxLen), chunk_size \in sizes, overlap \in overlaps,
       clearFails \in BOOLEAN, readFails \in BOOLEAN, initFails \in BOOLEAN,
       failAt \in 0..maxLen, dupRaises \in BOOLEAN :
        /\ failAt <= Len(Chunks(transcript, chunk_size, overlap))
        /\ process_transcript(transcript, chunk_size, overlap,
                              clearFails, readFails, initFails, failAt, dupRaises)

\* processor.process_transcript(path) of __main__
MainIngest ==
    \E transcript \in Strings(LoopMaxLen), clearFails \in BOOLEAN, readFails \in BOOLEAN,
       failAt \in 0..1 :
        /\ failAt <= Len(Chunks(transcript, DefaultChunkSize, DefaultOverlap))
        /\ main_ingest(transcript, clearFails, readFails, failAt)

\* a direct call of process_transcript with the default chunk_size and overlap
DefaultIngest ==
    \E transcript \in Strings(LoopMaxLen), clearFails \in BOOLEAN, readFails \in BOOLEAN,
       failAt \in 0..1 :
        /\ failAt <= Len(Chunks(transcript, DefaultChunkSize, DefaultOverlap))
        /\ process_transcript(transcript, DefaultChunkSize, DefaultOverlap,
                              clearFails, readFails, FALSE, failAt, FALSE)

\* delete_processed_chunks with the ctx of any caller: the chunks it holds as
\* processed are in the store or were returned by query_transcript
DeleteProcessed ==
    \E truthy \in BOOLEAN, once \in BOOLEAN,
       processed \in SeqsUpTo(Ids(store) \cup Range(returned), MaxProcessed),
       fault \in {"none", "delete", "clear"} :
        delete_processed_chunks(truthy, once, processed, fault)

\* delete_processed_chunks as the agent calls it, with its RunContext
AgentDelete == delete_processed_chunks(FALSE, FALSE, <<>>, "none")

Query ==
    \E id \in Ids(store) \cup {NoId}, fault \in Faults : query_transcript(id, fault)

\* the adds stop once maxBlocks blocks were made
AddAction(titles, contents, maxBlocks) ==
    /\ uuids < maxBlocks
    /\ \E title \in titles, content \in contents : add_action_item(title, content)

AddAgenda(titles, contents, maxBlocks) ==
    /\ uuids < maxBlocks
    /\ \E title \in titles, content \in contents : add_agenda_item(title, content)

AddDecision(titles, contents, maxBlocks) ==
    /\ uuids < maxBlocks
    /\ \E title \in titles, content \in contents : add_decision(title, content)

Save == \E fault \in WriteFaults : save_final_summary_result(fault)

\* ingestion of a text with a backend that accepts every clear and every add
CleanIngest(maxLen, sizes, overlaps) ==
    \E transcript \in Strings(maxLen), chunk_size \in sizes, overlap \in overlaps :
        process_transcript(transcript, chunk_size, overlap, FALSE, FALSE, FALSE,
                           IF chunk_size = overlap THEN 0 ELSE maxLen, FALSE)

\* the chunk store under any sequence of direct calls of its operations,
\* ingestion failing where the backend, the path or the handle makes it fail
NextIngest ==
    \/ Ingest(StoreMaxLen, WindowSizes(StoreMaxChunk), WindowOverlaps(StoreMaxChunk)) /\ Direct
    \/ (\E fails \in BOOLEAN : initialize_collection(fails)) /\ Direct
    \/ cleanup /\ Direct
    \/ Query /\ Direct
    \/ DeleteProcessed /\ Direct

SpecIngest == InitStore /\ [][NextIngest]_vars

\* the chunk store under any sequence of ingestions and tool calls, the
\* backend failing in the tool calls only
NextStore ==
    \/ CleanIngest(StoreMaxLen, WindowSizes(StoreMaxChunk), WindowOverlaps(StoreMaxChunk)) /\ Direct
    \/ Query /\ Direct
    \/ DeleteProcessed /\ Direct

SpecStore == InitStore /\ [][NextStore]_vars

\* the tools of the chunk store, and the calls that drop and reopen the
\* handle, on what earlier ingestions left in the collection
NextQuery ==
    \/ Query /\ Direct
    \/ DeleteProcessed /\ Direct
    \/ cleanup /\ Direct
    \/ (\E fails \in BOOLEAN : initialize_collection(fails)) /\ Direct

SpecQuery == InitStore /\ [][NextQuery]_vars

\* ingestion alone, of longer transcripts with larger chunks
NextChunk == CleanIngest(MaxLen, Sizes(MaxChunk), Overlaps(MaxChunk)) /\ Direct

SpecChunk == InitChunk /\ [][NextChunk]_vars

\* the accumulator and the summary file under any sequence of direct calls
NextAcc ==
    \/ AddAction(Titles, Contents, MaxBlocks) /\ Direct
    \/ AddAgenda(Titles, Contents, MaxBlocks) /\ Direct
    \/ AddDecision(Titles, Contents, MaxBlocks) /\ Direct
    \/ Save /\ Direct
    \/ get_final_summary /\ Direct

SpecAcc == InitAcc /\ [][NextAcc]_vars

\* the program run as __main__: one ingestion, then one agent run whose oracle
\* keeps to the protocol of SYSTEM_PROMPT: one tool call per turn, or a valid
\* final result
Next ==
    \/ MainIngest /\ Direct
    \/ pc = "ingested" /\ run_sync /\ Direct
    \/ pc = "awaiting" /\ Query /\ Direct
    \/ pc = "awaiting" /\ AgentDelete /\ Direct
    \/ pc = "awaiting" /\ AddAction({<<"a">>}, {<<"a">>}, LoopMaxBlocks) /\ Direct
    \/ pc = "awaiting" /\ AddAgenda({<<"a">>}, {<<"a">>}, LoopMaxBlocks) /\ Direct
    \/ pc = "awaiting" /\ AddDecision({<<"a">>}, {<<"a">>}, LoopMaxBlocks) /\ Direct
    \/ pc = "awaiting" /\ Save /\ Direct
    \/ pc = "awaiting" /\ get_final_summary /\ Direct
    \/ (\E printFails \in BOOLEAN : final_result(TRUE) /\ MainHandler(printFails)) /\ Direct
    \/ run_raises /\ MainHandler(FALSE) /\ Direct

Spec == InitMain /\ [][Next]_vars

\* process_transcript and the seven tools as the agent calls them, called in
\* any order by a caller that goes on after an ingestion that raised
NextTools ==
    \/ DefaultIngest /\ Direct
    \/ Query /\ Direct
    \/ AgentDelete /\ Direct
    \/ AddAction({<<"a">>}, {<<"a">>}, LoopMaxBlocks) /\ Direct
    \/ AddAgenda({<<"a">>}, {<<"a">>}, LoopMaxBlocks) /\ Direct
    \/ AddDecision({<<"a">>}, {<<"a">>}, LoopMaxBlocks) /\ Direct
    \/ Save /\ Direct
    \/ get_final_summary /\ Direct

SpecTools == InitMain /\ [][NextTools]_vars

\* The oracle's answer is a turn. It holds a final result or tool calls, and the
\* loop dispatches every tool call of the answer, one handler after the other.
\* a tool call that opens a turn
NewTurn ==
    /\ pc = "awaiting"
    /\ turns < MaxTurns
    /\ turns' = turns + 1
    /\ dispatched' = 1
    /\ UNCHANGED <<snapshot, ingested>>

\* one more tool call of the turn that is being dispatched
SameTurn ==
    /\ pc = "awaiting"
    /\ dispatched \in 1..(MaxBatch - 1)
    /\ dispatched' = dispatched + 1
    /\ UNCHANGED <<turns, snapshot, ingested>>

\* a turn that holds a final result
ResultTurn ==
    /\ turns < MaxTurns
    /\ turns' = turns + 1
    /\ dispatched' = 0
    /\ UNCHANGED <<snapshot, ingested>>

\* the program run as __main__ with any oracle: its turns hold one tool call
\* or more, and its final results are valid or not
NextRun ==
    \/ MainIngest /\ Direct
    \/ pc = "ingested" /\ run_sync
         /\ turns' = 0 /\ dispatched' = 0 /\ UNCHANGED <<snapshot, ingested>>
    \/ Query /\ NewTurn
    \/ Query /\ SameTurn
    \/ AgentDelete /\ NewTurn
    \/ AgentDelete /\ SameTurn
    \/ AddAction({<<"a">>}, {<<"a">>}, RunMaxBlocks) /\ NewTurn
    \/ AddAction({<<"a">>}, {<<"a">>}, RunMaxBlocks) /\ SameTurn
    \/ AddAgenda({<<"a">>}, {<<"a">>}, RunMaxBlocks) /\ NewTurn
    \/ AddAgenda({<<"a">>}, {<<"a">>}, RunMaxBlocks) /\ SameTurn
    \/ AddDecision({<<"a">>}, {<<"a">>}, RunMaxBlocks) /\ NewTurn
    \/ AddDecision({<<"a">>}, {<<"a">>}, RunMaxBlocks) /\ SameTurn
    \/ Save /\ NewTurn
    \/ Save /\ SameTurn
    \/ get_final_summary /\ NewTurn
    \/ get_final_summary /\ SameTurn
    \/ (\E valid \in BOOLEAN, printFails \in BOOLEAN :
            final_result(valid) /\ MainHandler(printFails)) /\ ResultTurn
    \/ run_raises /\ MainHandler(FALSE) /\ Direct

SpecRun == InitMain /\ [][NextRun]_vars

\* the caller keeps the SummaryResponse it was given
Keep ==
    /\ snapshot' = Held
    /\ UNCHANGED <<turns, dispatched, ingested>>

\* the accumulator under any sequence of adds and of snapshots that are kept
NextSnap ==
    \/ AddAction({<<"a">>}, Contents, MaxBlocks) /\ Direct
    \/ AddAgenda({<<"a">>}, Contents, MaxBlocks) /\ Direct
    \/ AddDecision({<<"a">>}, Contents, MaxBlocks) /\ Direct
    \/ get_final_summary /\ Keep

SpecSnap == InitAcc /\ [][NextSnap]_vars

\* a query whose backend calls all succeed
QueryOk == \E id \in Ids(store) \cup {NoId} : query_transcript(id, "none")

\* the first call of process_transcript, with a backend that never fails
FirstIngest ==
    /\ last.op = "init"
    /\ CleanIngest(StoreMaxLen, WindowSizes(StoreMaxChunk), WindowOverlaps(StoreMaxChunk))
    /\ ingested' = store'
    /\ UNCHANGED <<turns, dispatched, snapshot>>

\* the first ingestion is over
AfterIngest == last.op # "init"

\* one ingestion, then the seven tools with a backend and a file system that
\* never fail
NextDrain ==
    \/ FirstIngest
    \/ AfterIngest /\ QueryOk /\ Direct
    \/ AfterIngest /\ AgentDelete /\ Direct
    \/ AfterIngest /\ AddAction({<<"a">>}, {<<"a">>}, RunMaxBlocks) /\ Direct
    \/ AfterIngest /\ AddAgenda({<<"a">>}, {<<"a">>}, RunMaxBlocks) /\ Direct
    \/ AfterIngest /\ AddDecision({<<"a">>}, {<<"a">>}, RunMaxBlocks) /\ Direct
    \/ AfterIngest /\ save_final_summary_result("none") /\ Direct
    \/ AfterIngest /\ get_final_summary /\ Direct

SpecDrain == Init /\ [][NextDrain]_vars

\* ------------------------------------------------------------------ claims

NoDuplicates(seq) == \A i, j \in 1..Len(seq) : seq[i] = seq[j] => i = j

IsPrefix(s, t) == Len(s) <= Len(t) /\ SubSeq(t, 1, Len(s)) = s

\* the window of at most c characters of d that starts at the 0-based position start
Window(d, start, c) == [j \in 1..Min(c, Len(d) - start) |-> d[start + j]]

\* the 0-based k with a window start k * step below len(d)
WindowStarts(d, step) == {k \in 0..Len(d) : k * step < Len(d)}

\* s without its first n characters
Drop(s, n) ==
    IF n <= 0 THEN s ELSE IF n >= Len(s) THEN <<>> ELSE SubSeq(s, n + 1, Len(s))

\* the first n characters of s, all of s when it has fewer
FirstChars(s, n) == SubSeq(s, 1, Min(n, Len(s)))

\* the last n characters of s, all of s when it has fewer
LastChars(s, n) == Drop(s, Len(s) - Min(n, Len(s)))

\* the first chunk whole, then every later chunk without its first o characters
RECURSIVE Reassembled(_, _, _)
Reassembled(chunks, k, o) ==
    IF k > Len(chunks) THEN <<>>
    ELSE (IF k = 1 THEN chunks[1] ELSE Drop(chunks[k], o)) \o Reassembled(chunks, k + 1, o)

\* the documents of the store in id order, for a store whose ids are 0..n-1
StoredChunks == [k \in 1..Cardinality(Ids(store)) |-> store[k - 1].document]

Ingested == last.op = "process_transcript"

Queried == last.op = "query_transcript"

\* the last step was a delete_processed_chunks that deleted ids
DeletedProcessed ==
    /\ last.op = "delete_processed_chunks"
    /\ last.obs.msg = "Successfully deleted" \/ last.fault = "clear"

\* C1: after every step, no chunk id was returned by query_transcript twice
\* since the last ingestion, and no chunk whose text was returned is in the
\* store, also after calls whose backend get, query or delete failed; a
\* query_transcript call returns a text only for a chunk that was in the store
\* and was not returned before; and a delete of ids that are not in the store
\* changes nothing.
C1_ReturnedAtMostOnce ==
    [][/\ NoDuplicates(returned')
       /\ \A k \in 1..Len(returned') : returned'[k] \notin Ids(store')
       /\ (Queried' /\ last'.obs.kind = "text") =>
              /\ last'.id \in Ids(store)
              /\ last'.id \notin Range(returned)
              /\ returned' = Append(returned, last'.id)
       /\ (DeletedProcessed' /\ last'.processed \cap Ids(store) = {}) =>
              store' = store]_vars

\* C1 witness: one chunk was returned, and a later delete_processed_chunks
\* deleted its id again.
C1_Witness ==
    /\ DeletedProcessed
    /\ returned # <<>>
    /\ Range(returned) \cap last.processed # {}
    /\ store # EmptyStore

\* C2 as stated: query_transcript returns the CHROMADB_EMPTY sentinel exactly
\* when the store held no chunk at the call.
C2_SentinelIffEmpty ==
    Queried => (last.obs = Status(CHROMADB_EMPTY) <=> last.preEmpty)

\* C2 amended: the sentinel is returned only for an empty store; an empty store
\* gives the sentinel whenever the collection can be read, and the error
\* observation when it cannot; it never gives a chunk text.
C2_SentinelOnlyIfEmpty ==
    Queried =>
        /\ last.obs = Status(CHROMADB_EMPTY) => last.preEmpty
        /\ (last.preEmpty /\ last.handle = "open" /\ last.fault # "get")
               => last.obs = Status(CHROMADB_EMPTY)
        /\ (last.preEmpty /\ (last.handle = "none" \/ last.fault = "get"))
               => last.obs = Status("Error")
        /\ last.preEmpty => store = EmptyStore

\* C2 witness: a store drained by earlier calls answers with the sentinel.
C2_Witness ==
    /\ Queried /\ last.preEmpty /\ last.obs = Status(CHROMADB_EMPTY)
    /\ returned # <<>>

\* C3 as stated: with overlap < chunk_size a returning process_transcript
\* returns the number of window starts k*(chunk_size-overlap) below
\* len(transcript), stores that many chunks under the ids 0..n-1, and its k-th
\* chunk is the window of at most chunk_size characters starting at
\* k*(chunk_size-overlap).
C3_ChunksAreWindows ==
    (Ingested /\ last.overlap < last.chunk_size /\ last.outcome = "returned") =>
        LET d    == last.transcript
            step == last.chunk_size - last.overlap
            n    == Cardinality(WindowStarts(d, step))
        IN  /\ last.ret = n
            /\ Ids(store) = 0..(n - 1)
            /\ \A k \in 0..(n - 1) :
                   store[k].document = Window(d, k * step, last.chunk_size)

\* C3 amended: the number of chunks and their ids are as stated for every
\* chunk_size; the k-th chunk is the window of at most chunk_size characters at
\* k*(chunk_size-overlap) when chunk_size >= 0, and with a negative chunk_size
\* it is the window of len(transcript) + chunk_size characters there as long as
\* k*(chunk_size-overlap) + chunk_size is negative, and empty from then on.
C3_ChunksAreSlices ==
    (Ingested /\ last.overlap < last.chunk_size /\ last.outcome = "returned") =>
        LET d    == last.transcript
            step == last.chunk_size - last.overlap
            n    == Cardinality(WindowStarts(d, step))
        IN  /\ last.ret = n
            /\ Ids(store) = 0..(n - 1)
            /\ \A k \in 0..(n - 1) :
                   store[k].document =
                       IF last.chunk_size >= 0
                       THEN Window(d, k * step, last.chunk_size)
                       ELSE IF k * step + last.chunk_size < 0
                       THEN Window(d, k * step, Len(d) + last.chunk_size)
                       ELSE <<>>

\* C3 witness: three characters in windows of two advancing by one give three
\* chunks, the last one short.
C3_Witness ==
    /\ Ingested /\ last.outcome = "returned"
    /\ last.transcript = <<"a", " ", "a">> /\ last.chunk_size = 2 /\ last.overlap = 1
    /\ last.ret = 3
    /\ store[2].document = <<"a">>

\* C4 as stated: with overlap < chunk_size, the first stored chunk followed by
\* every later chunk without its first overlap characters is the transcript.
C4_ChunksReassemble ==
    (Ingested /\ last.overlap < last.chunk_size /\ last.outcome = "returned") =>
        Reassembled(StoredChunks, 1, last.overlap) = last.transcript

\* C4 amended: with 0 <= overlap < chunk_size the chunks reassemble to the
\* transcript; with a negative overlap and chunk_size >= 0 they reassemble to
\* a text no longer than the transcript that starts as it does, and to all of
\* it only when the transcript is no longer than chunk_size; with a negative
\* chunk_size the first chunk is the transcript without its last -chunk_size
\* characters, and a transcript of at most -chunk_size characters is
\* reassembled only when it is empty.
C4_ChunksReassembleNoGap ==
    (Ingested /\ last.overlap < last.chunk_size /\ last.outcome = "returned") =>
        LET whole == Reassembled(StoredChunks, 1, last.overlap) = last.transcript
        IN  /\ last.overlap >= 0 => whole
            /\ last.chunk_size < 0 =>
                   /\ StoredChunks # <<>> =>
                          StoredChunks[1] = FirstChars(last.transcript,
                                                       Len(last.transcript) + last.chunk_size)
                   /\ Len(last.transcript) <= 0 - last.chunk_size =>
                          (whole <=> last.transcript = <<>>)
            /\ (last.overlap < 0 /\ last.chunk_size >= 0) =>
                   /\ Len(Reassembled(StoredChunks, 1, last.overlap)) <= Len(last.transcript)
                   /\ FirstChars(last.transcript, last.chunk_size)
                          = FirstChars(Reassembled(StoredChunks, 1, last.overlap), last.chunk_size)
                   /\ whole <=> Len(last.transcript) <= last.chunk_size

\* C4 witness: a trailing chunk shorter than the overlap.
C4_Witness ==
    /\ Ingested /\ last.outcome = "returned"
    /\ last.overlap = 2 /\ last.chunk_size = 3
    /\ Len(last.transcript) = 3
    /\ Len(store[2].document) < last.overlap

\* C5 as stated: a process_transcript call with overlap >= chunk_size raises,
\* and the store is what it was before the call.
C5_BadOverlapRaisesFirst ==
    (Ingested /\ last.overlap >= last.chunk_size) =>
        (last.outcome = "raised" /\ ~last.changed)

\* C6 as stated: after a returning process_transcript the store holds exactly
\* the chunks of the transcript, unprocessed, and as many as the call returned.
C6_StoreIsTheIngestion ==
    (Ingested /\ last.outcome = "returned") =>
        LET chunks == Chunks(last.transcript, last.chunk_size, last.overlap)
        IN  /\ store = [k \in 0..(Len(chunks) - 1) |-> ChunkRecord(k, chunks[k + 1])]
            /\ last.ret = Cardinality(Ids(store))

Added == last.op \in {"add_agenda_item", "add_decision", "add_action_item"}

\* the blocks of the section an add tool appends to, in a snapshot
SnapshotBlocksOf(op) ==
    CASE op = "add_agenda_item" -> generate_summary.Agenda.blocks
      [] op = "add_decision"    -> generate_summary.Decisions.blocks
      [] op = "add_action_item" -> generate_summary.ActionItems.blocks

\* C7: in every step each section's blocks are a prefix of its blocks after the
\* step, and after an add the snapshot's section ends with the new block.
C7_AppendOnly ==
    [][/\ IsPrefix(Agenda, Agenda')
       /\ IsPrefix(Decisions, Decisions')
       /\ IsPrefix(ActionItems, ActionItems')
       /\ (uuids' # uuids) =>
              /\ Added'
              /\ SnapshotBlocksOf(last.op)' # <<>>
              /\ SnapshotBlocksOf(last.op)'[Len(SnapshotBlocksOf(last.op)')] = last'.block]_vars

\* C7 witness: an add_decision made the second block of Decisions.
C7_Witness ==
    /\ last.op = "add_decision"
    /\ Len(Decisions) = 2
    /\ Decisions[2] = last.block

EmptySummaryError == Status("Error: No content found in summary. Please add some items first.")

\* C8 as stated: save_final_summary_result and get_final_summary, called with
\* every section empty, answer with the empty-summary error, write nothing, and
\* the run goes on.
C8_EmptyIsAnError ==
    (last.op \in {"save_final_summary_result", "get_final_summary"} /\ last.allEmpty) =>
        /\ last.obs = EmptySummaryError
        /\ file = last.fileBefore
        /\ pc = "awaiting"

\* C8 amended: with every section empty save_final_summary_result answers with
\* the empty-summary error and get_final_summary with the snapshot of four
\* empty sections; neither writes the file and the run goes on.
C8_EmptySaveIsAnError ==
    /\ (last.op = "save_final_summary_result" /\ last.allEmpty) =>
           /\ last.obs = EmptySummaryError
           /\ file = last.fileBefore
           /\ pc = "awaiting"
    /\ (last.op = "get_final_summary" /\ last.allEmpty) =>
           /\ last.obs.kind = "summary"
           /\ \A name \in {"Agenda", "Decisions", "ActionItems", "ClosingRemarks"} :
                  last.obs.summary[name].blocks = <<>>
           /\ file = last.fileBefore
           /\ pc = "awaiting"

\* C8 witness: a run called save_final_summary_result on the empty accumulator.
C8_Witness ==
    /\ last.op = "save_final_summary_result" /\ last.allEmpty
    /\ pc = "awaiting"

Saved == last.op = "save_final_summary_result"

SavedOk == Status("Successfully saved final summary result to file")

\* the file is an artifact holding exactly the accumulated blocks, in order
FileHoldsAccumulator ==
    /\ file.state = "written"
    /\ file.content.Agenda.blocks = Agenda
    /\ file.content.Decisions.blocks = Decisions
    /\ file.content.ActionItems.blocks = ActionItems
    /\ file.content.ClosingRemarks.blocks = <<>>

\* C9 as stated: with a block in some section save_final_summary_result
\* succeeds and the file holds exactly the accumulated blocks; with no block it
\* leaves the file alone.
C9_SaveSucceeds ==
    Saved =>
        /\ ~last.allEmpty => (last.obs = SavedOk /\ FileHoldsAccumulator)
        /\ last.allEmpty => file = last.fileBefore

\* the summary can be serialised and the file system takes it
SaveGoesThrough == last.fault = "none" /\ Serializable(generate_summary)

\* C9 amended: with a block in some section save_final_summary_result, unless
\* the summary cannot be serialised or the file cannot be opened or written,
\* succeeds and the file holds exactly the accumulated blocks. When open or
\* write raises an IOError the call answers with the save error; when the
\* summary cannot be serialised, or cannot be encoded for the file, it answers
\* with the processing error. The file is as it was when the summary could not
\* be serialised or the file could not be opened; it is empty, or holds the
\* first characters of the summary only, when the write failed. With no block
\* the call leaves the file alone.
C9_SaveSucceedsUnlessRaised ==
    Saved =>
        /\ (~last.allEmpty /\ SaveGoesThrough) =>
               (last.obs = SavedOk /\ FileHoldsAccumulator)
        /\ (~last.allEmpty /\ last.fault \in {"open", "write", "short"}) =>
               last.obs = Status("Error saving to file")
        /\ (~last.allEmpty /\ (last.fault = "encode" \/ ~Serializable(generate_summary))) =>
               last.obs = Status("Error processing summary")
        /\ (~last.allEmpty /\ (last.fault = "open" \/ ~Serializable(generate_summary))) =>
               file = last.fileBefore
        /\ (~last.allEmpty /\ last.fault \in {"write", "encode"}) => file = Truncated
        /\ (~last.allEmpty /\ last.fault = "short") =>
               file = Partial(ModelDumpJson(generate_summary))
        /\ last.allEmpty => file = last.fileBefore

\* C9 witness: a save after one add_decision on the empty accumulator wrote one
\* Decisions block and no other.
C9_Witness ==
    /\ Saved /\ last.obs = SavedOk
    /\ uuids = 1
    /\ Len(file.content.Decisions.blocks) = 1
    /\ file.content.Agenda.blocks = <<>> /\ file.content.ActionItems.blocks = <<>>

\* C10 as stated: a run is done only after one of its query_transcript calls
\* returned the CHROMADB_EMPTY sentinel.
C10_DoneOnlyAfterEmpty == pc = "done" => sawEmpty

\* ---- C11 ----
\* C11 as stated: every run ends within the configured step bound, and a run
\* that exceeds the bound ends in a fatal error: a run that still awaits the
\* oracle has had at most result_retries turns.
C11_RunEndsWithinStepBound ==
    pc = "awaiting" => turns <= result_retries

\* ---- C12 ----
\* C12 as stated: at most one tool call is dispatched per oracle turn.
C12_OneToolCallPerTurn ==
    dispatched <= 1

\* ---- C13 ----
ToolOps ==
    {"query_transcript", "delete_processed_chunks", "add_action_item", "add_agenda_item",
     "add_decision", "save_final_summary_result", "get_final_summary"}

\* the last step dispatched a tool
ToolCalled == last.op \in ToolOps

\* the last tool call met a failure of the store backend, of the serialisation
\* or of the file system
ToolFailed ==
    \/ Queried /\ (last.fault \in {"get", "query", "delete", "verify"} \/ last.handle = "none")
    \/ last.op = "delete_processed_chunks" /\ last.fault # "none"
    \/ Saved /\ ~last.allEmpty /\ ~SaveGoesThrough

ErrorMessages ==
    {"Error", "Error deleting chunks", "Error saving to file", "Error processing summary"}

\* after every tool call the run awaits the oracle's next step and the call has
\* given an observation; a call in which the store backend (get, query,
\* delete), the serialisation or the file write failed has given an error
\* message as its observation
ToolFailureIsAnObservation ==
    /\ ToolCalled =>
           /\ pc = "awaiting"
           /\ last.obs.kind \in {"status", "text", "summary"}
    /\ ToolFailed =>
           /\ last.obs.kind = "status"
           /\ last.obs.msg \in ErrorMessages

\* the run ended because the oracle's results were rejected result_retries times
BoundExhausted == last.op = "final_result" /\ ~last.valid /\ retries > result_retries

\* process_transcript was given an overlap that is no overlap of its chunk_size
ConfigurationError == Ingested /\ last.overlap >= last.chunk_size

\* C13 as stated: a tool call's failure is an error observation and the run
\* goes on; the program fails only when the step bound is exhausted or the
\* configuration is in error.
C13_OnlyBoundAndConfigurationFatal ==
    /\ ToolFailureIsAnObservation
    /\ pc = "failed" => (BoundExhausted \/ ConfigurationError)

\* C13 amended: a tool call's failure is an error observation and the run goes
\* on; the program fails only in a step that is no tool call: an ingestion
\* that raised, an exception that left run_sync, the exhausted retries of the
\* final result among them.
C13_FailureIsAnObservation ==
    /\ ToolFailureIsAnObservation
    /\ pc = "failed" =>
           \/ Ingested /\ last.outcome = "raised"
           \/ last.op = "run_raises"
           \/ BoundExhausted

\* C13 witness: the backend rejected the delete of a query_transcript call, and
\* the run goes on.
C13_Witness ==
    /\ Queried /\ last.fault = "delete"
    /\ last.obs = Status("Error deleting chunks")
    /\ pc = "awaiting"

\* ---- C14 ----
\* the blocks of all sections, Agenda first
AllBlocks == Agenda \o Decisions \o ActionItems

\* C14 as stated: an add with an empty title is rejected and appends no block.
C14_EmptyTitleRejected ==
    (Added /\ last.title = <<>>) =>
        /\ last.obs.msg # "Successfully added"
        /\ \A k \in 1..Len(AllBlocks) : AllBlocks[k].id # last.block.id

\* ---- C15 ----
\* C15 as stated: a SummaryResponse that was returned reads as it did when it
\* was returned, whatever was added since.
C15_SnapshotIsACopy ==
    snapshot.held => Read(snapshot) = snapshot.taken

\* ---- C16 ----
\* C16 as stated: with overlap < chunk_size, the last overlap characters of
\* every chunk are the first overlap characters of the next chunk.
C16_OverlapIsExact ==
    (Ingested /\ last.overlap < last.chunk_size /\ last.outcome = "returned") =>
        \A k \in 2..Len(StoredChunks) :
            LastChars(StoredChunks[k - 1], last.overlap)
                = FirstChars(StoredChunks[k], last.overlap)

\* C16 amended: with overlap < chunk_size, every chunk after its first
\* chunk_size - overlap characters is the start of the next chunk; for a chunk
\* of chunk_size characters these are its last overlap characters and the first
\* overlap characters of the next chunk, for a shorter chunk they are fewer,
\* and with a negative overlap and chunk_size >= 0 there is none. With a
\* negative chunk_size this holds of a chunk whose next chunk is not empty.
C16_OverlapUpToTheEnd ==
    (Ingested /\ last.overlap < last.chunk_size /\ last.outcome = "returned") =>
        \A k \in 2..Len(StoredChunks) :
            LET prev == StoredChunks[k - 1]
                rest == Drop(prev, last.chunk_size - last.overlap)
            IN  /\ last.overlap >= 0 => Len(rest) <= last.overlap
                /\ (last.overlap < 0 /\ last.chunk_size >= 0) => rest = <<>>
                /\ (last.chunk_size >= 0 \/ StoredChunks[k] # <<>>) =>
                       rest = FirstChars(StoredChunks[k], Len(rest))
                /\ (Len(prev) = last.chunk_size /\ last.overlap >= 0) =>
                       /\ Len(rest) = last.overlap
                       /\ LastChars(prev, last.overlap) = rest
                       /\ FirstChars(StoredChunks[k], last.overlap) = rest
                /\ (Len(prev) < last.chunk_size /\ last.overlap >= 0) =>
                       /\ Len(rest) < last.overlap
                       /\ StoredChunks[k] = rest

\* C16 witness: the second chunk is shorter than chunk_size and shares one
\* character, not the two of the overlap, with the third.
C16_Witness ==
    /\ Ingested /\ last.outcome = "returned"
    /\ last.chunk_size = 3 /\ last.overlap = 2
    /\ Len(StoredChunks) = 3
    /\ Len(StoredChunks[2]) = 2
    /\ Len(StoredChunks[3]) = 1

\* ---- C17 ----
\* C17: the blocks of the three sections have pairwise distinct ids, and every
\* id is one of the tokens drawn so far, so that the next draw is a new one.
C17_BlockIdsDistinct ==
    /\ \A i, j \in 1..Len(AllBlocks) : AllBlocks[i].id = AllBlocks[j].id => i = j
    /\ \A i \in 1..Len(AllBlocks) : AllBlocks[i].id \in {Uuid4(n) : n \in 0..(uuids - 1)}

\* C17 witness: three adds have put a block in each section.
C17_Witness ==
    /\ Added
    /\ Agenda # <<>> /\ Decisions # <<>> /\ ActionItems # <<>>

\* ---- C18 ----
\* A step of a program whose backend never fails. stripped says whether a
\* returned text is the chunk without its leading and trailing whitespace, or
\* the chunk as it was stored.
DrainStep(stripped) ==
    /\ (last'.op = "query_transcript" /\ store # EmptyStore) =>
           LET id == last'.id
           IN  /\ id \in Ids(store)
               /\ last'.obs = Text(IF stripped THEN Strip(ingested[id].document)
                                               ELSE ingested[id].document)
               /\ Ids(store') = Ids(store) \ {id}
               /\ \A k \in Ids(store') : store'[k] = store[k]
               /\ Cardinality(Ids(store')) = Cardinality(Ids(store)) - 1
               /\ returned' = Append(returned, id)
    /\ (last'.op = "query_transcript" /\ store = EmptyStore) =>
           /\ last'.obs = Status(CHROMADB_EMPTY)
           /\ returned' = returned
    /\ (last'.op \in ToolOps /\ store = EmptyStore) => store' = EmptyStore
    /\ NoDuplicates(returned')
    /\ Range(returned') \cap Ids(store') = {}
    /\ Range(returned') \cup Ids(store') = Ids(ingested')

\* C18 as stated: with no backend failure every query_transcript call on a
\* non-empty store returns the text of one stored chunk and removes that chunk
\* and no other; every chunk of the ingestion is in the store or was returned
\* once; a call on the empty store returns the sentinel; and no tool call puts
\* a chunk into an empty store.
C18_ChunkTextsThenSentinel == [][DrainStep(FALSE)]_vars

\* C18 amended: the same, the text returned for a chunk being the chunk without
\* its leading and trailing whitespace.
C18_StrippedTextsThenSentinel == [][DrainStep(TRUE)]_vars

\* C18 witness: two chunks were ingested, two calls returned them, one of them
\* not as it was stored, and the third call returned the sentinel.
C18_Witness ==
    /\ Queried /\ last.obs = Status(CHROMADB_EMPTY)
    /\ Cardinality(Ids(ingested)) = 2
    /\ Len(returned) = 2
    /\ store = EmptyStore
    /\ \E k \in 1..2 : Strip(ingested[returned[k]].document) # ingested[returned[k]].document

\* ---- C19 ----
\* C19: a step changes the store only when it is a query_transcript call or an
\* ingestion, and the accumulator only when it is an add; delete_processed_chunks
\* reports that there is nothing to delete; each add appends one block to its
\* own section and leaves the other two as they were; process_transcript leaves
\* the accumulator as it was.
C19_Frames ==
    [][/\ store' # store => last'.op \in {"query_transcript", "process_transcript"}
       /\ accVars' # accVars => last'.op \in {"add_action_item", "add_agenda_item", "add_decision"}
       /\ last'.op = "delete_processed_chunks" =>
              /\ last'.obs = Status("No chunks to delete")
              /\ store' = store /\ accVars' = accVars
       /\ last'.op \in {"save_final_summary_result", "get_final_summary"} =>
              store' = store /\ accVars' = accVars
       /\ last'.op = "add_agenda_item" =>
              /\ Len(Agenda') = Len(Agenda) + 1
              /\ Decisions' = Decisions /\ ActionItems' = ActionItems /\ store' = store
       /\ last'.op = "add_decision" =>
              /\ Len(Decisions') = Len(Decisions) + 1
              /\ Agenda' = Agenda /\ ActionItems' = ActionItems /\ store' = store
       /\ last'.op = "add_action_item" =>
              /\ Len(ActionItems') = Len(ActionItems) + 1
              /\ Agenda' = Agenda /\ Decisions' = Decisions /\ store' = store
       /\ last'.op = "process_transcript" => accVars' = accVars]_vars

\* C19 witness: an ingestion after tool calls that added blocks stored a chunk,
\* and the blocks are still there.
C19_Witness ==
    /\ Ingested /\ last.outcome = "returned"
    /\ store # EmptyStore
    /\ AllBlocks # <<>>

\* ---- C20 ----
\* C20: ClosingRemarks has no blocks in a snapshot, in the summary that
\* get_final_summary returned and in the written file; every block of Agenda is
\* of type agenda, of Decisions decision, of ActionItems action; and a summary
\* has content exactly when one of these three sections has a block.
C20_ClosingRemarksEmpty ==
    /\ generate_summary.ClosingRemarks.blocks = <<>>
    /\ last.op = "get_final_summary" => last.obs.summary.ClosingRemarks.blocks = <<>>
    /\ file.state = "written" => file.content.ClosingRemarks.blocks = <<>>
    /\ \A k \in 1..Len(Agenda) : Agenda[k].type = "agenda"
    /\ \A k \in 1..Len(Decisions) : Decisions[k].type = "decision"
    /\ \A k \in 1..Len(ActionItems) : ActionItems[k].type = "action"
    /\ HasContent(generate_summary) <=> ~AllEmpty

\* C20 witness: a file was written from an accumulator with a block in each section.
C20_Witness ==
    /\ Saved /\ last.obs = SavedOk
    /\ Agenda # <<>> /\ Decisions # <<>> /\ ActionItems # <<>>
    /\ file.state = "written"

====
